---- MODULE Spec2Model ----
(***************************************************************************)
(* A model of the zap_logger package: a Logger facade over go.uber.org/zap *)
(* with a growable registry of cores (multiCoreSyncWrapper), per-sink      *)
(* level filters, regex redaction of messages, child and context loggers.  *)
(*                                                                         *)
(* One lineage is modelled: the root logger built by NewLogger or          *)
(* NewLoggerWithConfig and every logger derived from it with Child and     *)
(* WithContext.  All of them hold the same *zap.Logger, the same           *)
(* zap.AtomicLevel and the same *multiCoreSyncWrapper, so these three are  *)
(* single variables; name, context and redactions are per logger.          *)
(*                                                                         *)
(* Strings that are only compared or joined are TLA+ strings.  Messages    *)
(* are sequences of one-character strings, because redaction looks inside  *)
(* them.  The behaviour of the zap and regexp libraries is written out     *)
(* where the package calls them.                                           *)
(***************************************************************************)
EXTENDS Integers, Sequences, FiniteSets, TLC

VARIABLES
    loggers,      \* loggers[i]: the i-th Logger object: name, context, redactions
    atomicLevel,  \* the level held by the zap.AtomicLevel every logger shares
    cores,        \* coreWrapper.cores, in registration order
    written,      \* the Write calls the last operation made on the sinks, in order
    op,           \* the last operation: its name, receiver, arguments and result
    exited,       \* TRUE once os.Exit has been called (zap's WriteThenFatal)
    mu,           \* the sync.RWMutex of every Logger and of the registry
    threads       \* threads[t]: the call goroutine t is in and where it is in it

vars == <<loggers, atomicLevel, cores, written, op, exited, mu, threads>>

-----------------------------------------------------------------------------
(* Bounds of the model *)

MaxSize == 4   \* loggers, registered cores and installed rules, all together

-----------------------------------------------------------------------------
(* zapcore levels *)

DebugLevel == -1
InfoLevel  == 0
WarnLevel  == 1
ErrorLevel == 2
FatalLevel == 5

Root == 1

-----------------------------------------------------------------------------
(* Go values, zap fields *)

StringType == "StringType"
Int64Type  == "Int64Type"

GoString(s) == [kind |-> "string", s |-> s, i |-> 0]
GoInt(n)    == [kind |-> "int", s |-> "", i |-> n]

\* zap.String(key, val)
zapString(key, val) == [Key |-> key, Type |-> StringType, String |-> val, Integer |-> 0]

\* zap.Any(key, value): the field type follows the dynamic type of the value
zapAny(key, value) ==
    IF value.kind = "string"
    THEN zapString(key, value.s)
    ELSE [Key |-> key, Type |-> Int64Type, String |-> "", Integer |-> value.i]

\* A map[string]interface{} is a function from its keys; NoFields is the
\* absent (or nil, or empty) variadic argument: all three add no field.
NoFields == [k \in {} |-> GoString("")]

\* `for k, v := range m` visits the keys of a map in an unspecified order
Orders(S) ==
    {s \in [1..Cardinality(S) -> S] : \A i, j \in 1..Cardinality(S) : i # j => s[i] # s[j]}

-----------------------------------------------------------------------------
(* regexp: the patterns are sequences of character classes, each possibly  *)
(* optional (x?), the whole possibly enclosed in \b ... \b.  A pattern has  *)
(* at least one element that is not optional, so it matches no empty       *)
(* string; a replacement holds no $, so it is copied literally.            *)

Digits == {"0", "1", "2", "3", "4", "5", "6", "7", "8", "9"}
Letters == {"a", "b", "c", "d", "e", "f", "g", "h", "i", "l", "m", "n", "o",
            "p", "r", "t", "w", "y", "X"}
WordChars == Digits \cup Letters

\* \b at position i of s: between s[i-1] and s[i]
AtWordBoundary(s, i) ==
    LET before == i > 1 /\ s[i - 1] \in WordChars
        after  == i <= Len(s) /\ s[i] \in WordChars
    IN  before # after

\* The end (the index after the last character) of the match of elements
\* j.. of the pattern at position i, preferring to take an optional element
\* (x? is greedy); 0 when there is none.
RECURSIVE MatchFrom(_, _, _, _)
MatchFrom(re, s, i, j) ==
    IF j > Len(re.elems)
    THEN IF re.wb => AtWordBoundary(s, i) THEN i ELSE 0
    ELSE LET e    == re.elems[j]
             take == IF i <= Len(s) /\ s[i] \in e.cls
                     THEN MatchFrom(re, s, i + 1, j + 1)
                     ELSE 0
         IN  IF take # 0 THEN take
             ELSE IF e.opt THEN MatchFrom(re, s, i, j + 1)
             ELSE 0

Match(re, s, i) ==
    IF re.wb => AtWordBoundary(s, i) THEN MatchFrom(re, s, i, 1) ELSE 0

\* regexp.ReplaceAllString: the leftmost match at or after i is replaced by
\* repl, what precedes it is copied, and the search goes on after its end
RECURSIVE ReplaceFrom(_, _, _, _)
ReplaceFrom(re, src, repl, i) ==
    LET starts == {j \in i..Len(src) : Match(re, src, j) > j}
    IN  IF starts = {} THEN SubSeq(src, i, Len(src))
        ELSE LET m == CHOOSE x \in starts : \A y \in starts : x <= y
             IN  SubSeq(src, i, m - 1) \o repl
                     \o ReplaceFrom(re, src, repl, Match(re, src, m))

ReplaceAllString(re, src, repl) == ReplaceFrom(re, src, repl, 1)

-----------------------------------------------------------------------------
(* Redaction rules and messages the operations are called with *)

Lit(c)  == [cls |-> {c}, opt |-> FALSE]
Digit   == [cls |-> Digits, opt |-> FALSE]
OptSep  == [cls |-> {"-", " "}, opt |-> TRUE]
Digit4  == <<Digit, Digit, Digit, Digit>>

\* regexp.MustCompile(`\b(?:\d{4}[-\s]?){3}\d{4}\b`)
ccPattern ==
    [elems |-> Digit4 \o <<OptSep>> \o Digit4 \o <<OptSep>> \o Digit4 \o <<OptSep>> \o Digit4,
     wb |-> TRUE]

CardMask ==
    <<"X", "X", "X", "X", "-", "X", "X", "X", "X", "-", "X", "X", "X", "X",
      "-", "X", "X", "X", "X">>

\* type redaction struct { regex; replacement }
redaction(regex, replacement) == [regex |-> regex, replacement |-> replacement]

RuleCard == redaction(ccPattern, CardMask)
RuleAB   == redaction([elems |-> <<Lit("a")>>, wb |-> FALSE], <<"b">>)
RuleBC   == redaction([elems |-> <<Lit("b")>>, wb |-> FALSE], <<"c">>)

Rules     == {RuleAB, RuleBC}
CardRules == {RuleCard}

MsgCard ==
    <<"p", "a", "y", "m", "e", "n", "t", " ", "f", "a", "i", "l", "e", "d",
      " ", "w", "i", "t", "h", " ", "c", "a", "r", "d", " ", "4", "1", "1",
      "1", "-", "1", "1", "1", "1", "-", "1", "1", "1", "1", "-", "1", "1",
      "1", "1">>
MsgLogin == <<"l", "o", "g", "i", "n">>
MsgAB    == <<"a", "b">>


\* the maps given to the logging verbs and to WithContext
LoginFields  == ("password" :> GoString("secret123")) @@ ("user" :> GoString("alice"))
UserFields   == ("user" :> GoString("bob"))
LoggerFields == ("logger" :> GoString("x"))

\* the arguments of a call of a logging verb
Args(msg, fields) == [msg |-> msg, fields |-> fields]

Calls         == {Args(MsgAB, NoFields), Args(MsgLogin, LoginFields)}
CardCalls     == {Args(MsgCard, NoFields)}
ContextFields == {UserFields, LoggerFields}
UserContext   == {UserFields}
ChildNames    == {"auth"}
ConsoleLevels == {InfoLevel}
FileLevels    == {ErrorLevel}
SetLevels     == {WarnLevel}
FilePaths     == {"application.log"}

-----------------------------------------------------------------------------
(* redaction.go *)

RECURSIVE redactLoop(_, _, _)
redactLoop(redactions, redacted, k) ==
    IF k > Len(redactions) THEN redacted
    ELSE redactLoop(redactions,
                    ReplaceAllString(redactions[k].regex, redacted, redactions[k].replacement),
                    k + 1)

\* redactMessage with each rule run on the message it was given: the
\* result of the last rule alone
redactMessageIndependent(l, message) ==
    LET redactions == loggers[l].redactions
        n          == Len(redactions)
    IN  IF n = 0 THEN message
        ELSE ReplaceAllString(redactions[n].regex, message, redactions[n].replacement)

\* func (l *Logger) redactMessage(message string) string
redactMessage(l, message) == redactLoop(loggers[l].redactions, message, 1)

\* fieldRedactingCore.Write that does not look at the type of the field
fieldRedactingCoreWriteAnyType(redactKeys, fields) ==
    [k \in 1..Len(fields) |->
        IF fields[k].Key \in redactKeys
        THEN zapString(fields[k].Key, "***REDACTED***")
        ELSE fields[k]]

\* fieldRedactingCore.Write hands these fields to the core it wraps
fieldRedactingCoreWrite(redactKeys, fields) ==
    [k \in 1..Len(fields) |->
        IF fields[k].Key \in redactKeys /\ fields[k].Type = StringType
        THEN zapString(fields[k].Key, "***REDACTED***")
        ELSE fields[k]]

-----------------------------------------------------------------------------
(* Cores.  An entry of coreWrapper.cores is a redactingCore around the      *)
(* zapcore ioCore of a console or file handler, or the fieldRedactingCore   *)
(* around zapcore.NewNopCore().                                             *)

ioCore(out, level) == [type |-> "ioCore", out |-> out, level |-> level]
nopCore            == [type |-> "nopCore", out |-> "", level |-> FatalLevel]

\* func (l *Logger) createRedactingCore(core zapcore.Core) zapcore.Core
createRedactingCore(l, core) ==
    [type |-> "redactingCore", Core |-> core, logger |-> l, redactKeys |-> {}]

\* func createFieldRedactorCore(logger *Logger, keys []string) zapcore.Core
createFieldRedactorCore(l, keys) ==
    [type |-> "fieldRedactingCore", Core |-> nopCore, logger |-> l,
     redactKeys |-> {keys[k] : k \in 1..Len(keys)}]

\* the comparison of levelEnabler turned round
levelEnablerInverted(level, lvl) == lvl <= level

\* levelEnabler: zap.LevelEnablerFunc(func(lvl) bool { return lvl >= level })
levelEnabler(level, lvl) == lvl >= level

\* Enabled of an entry of the registry: both wrappers embed the core they
\* wrap and do not override Enabled; the nop core enables no level.
Enabled(core, lvl) ==
    /\ core.Core.type = "ioCore"
    /\ levelEnabler(core.Core.level, lvl)

\* Enabled that asks every core to enable the level
multiCoreSyncWrapperEnabledAll(lvl) ==
    \A i \in 1..Len(cores) : Enabled(cores[i], lvl)

\* func (m *multiCoreSyncWrapper) Enabled(lvl zapcore.Level) bool
multiCoreSyncWrapperEnabled(lvl) ==
    \E i \in 1..Len(cores) : Enabled(cores[i], lvl)

\* zapcore.CheckedEntry: the entry to write and the cores to write it to
\* (named by their index in the registry); NilCE is the nil *CheckedEntry.
NoEntry == [Level |-> InfoLevel, Message |-> <<>>]
NilCE   == [nil |-> TRUE, Entry |-> NoEntry, cores |-> <<>>, after |-> "WriteThenNoop"]

\* (*CheckedEntry).AddCore: the first core that accepts fixes the entry
ceAddCore(ce, ent, i) ==
    IF ce.nil
    THEN [nil |-> FALSE, Entry |-> ent, cores |-> <<i>>, after |-> "WriteThenNoop"]
    ELSE [ce EXCEPT !.cores = Append(@, i)]

\* (*CheckedEntry).After
ceAfter(ce, ent, hook) ==
    IF ce.nil
    THEN [nil |-> FALSE, Entry |-> ent, cores |-> <<>>, after |-> hook]
    ELSE [ce EXCEPT !.after = hook]

\* ioCore.Check, reached through redactingCore.Check
ioCoreCheck(i, ent, ce) ==
    IF Enabled(cores[i], ent.Level) THEN ceAddCore(ce, ent, i) ELSE ce

\* func (rc *redactingCore) Check(ent, ce)
redactingCoreCheck(i, ent, ce) ==
    LET redactedEntry == [ent EXCEPT !.Message = redactMessage(cores[i].logger, ent.Message)]
    IN  ioCoreCheck(i, redactedEntry, ce)

\* Check of an entry of the registry; fieldRedactingCore has no Check of
\* its own, so the nop core's runs: it returns ce as it is.
coreCheck(i, ent, ce) ==
    IF cores[i].type = "redactingCore" THEN redactingCoreCheck(i, ent, ce) ELSE ce

RECURSIVE checkLoop(_, _, _)
checkLoop(ent, ce, i) ==
    IF i > Len(cores) THEN ce
    ELSE checkLoop(ent, coreCheck(i, ent, ce), i + 1)

\* Check that returns as soon as one core has taken the entry
RECURSIVE checkLoopFirst(_, _, _)
checkLoopFirst(ent, ce, i) ==
    IF i > Len(cores) \/ ~ce.nil THEN ce
    ELSE checkLoopFirst(ent, coreCheck(i, ent, ce), i + 1)

multiCoreSyncWrapperCheckFirst(ent, ce) == checkLoopFirst(ent, ce, 1)

\* func (m *multiCoreSyncWrapper) Check(ent, ce)
multiCoreSyncWrapperCheck(ent, ce) == checkLoop(ent, ce, 1)

\* func (m *multiCoreSyncWrapper) AddCore(core zapcore.Core)
AddCore(core) == Append(cores, core)

\* (*zap.Logger).check for the levels of the five verbs, on the logger
\* zap.New(coreWrapper) built: the registry's Enabled is asked first for
\* the levels below DPanic, and Fatal always yields an entry that exits.
zapCheck(lvl, msg) ==
    IF lvl # FatalLevel /\ ~multiCoreSyncWrapperEnabled(lvl)
    THEN NilCE
    ELSE LET ent == [Level |-> lvl, Message |-> msg]
             ce  == multiCoreSyncWrapperCheck(ent, NilCE)
         IN  IF lvl = FatalLevel THEN ceAfter(ce, ent, "WriteThenFatal") ELSE ce

\* a file that can be opened and takes no byte: every write to it fails
FullPath == "/dev/full"

\* ioCore.Write returns the error of its WriteSyncer
ioCoreWrite(core) == IF core.out = FullPath THEN "err" ELSE "nil"

\* (*CheckedEntry).Write for an entry whose hook ends the process before
\* the cores are written to
ceWriteExitFirst(ce, fields) ==
    IF ce.after = "WriteThenFatal" THEN <<>>
    ELSE [k \in 1..Len(ce.cores) |->
             [core |-> ce.cores[k], Level |-> ce.Entry.Level,
              Message |-> ce.Entry.Message, Fields |-> fields,
              err |-> ioCoreWrite(cores[ce.cores[k]].Core)]]

\* (*CheckedEntry).Write: one Write on each core that was added, in order,
\* whatever the Write before returned; the hook (os.Exit for Fatal) runs
\* after the last of them
ceWrite(ce, fields) ==
    [k \in 1..Len(ce.cores) |->
        [core |-> ce.cores[k], Level |-> ce.Entry.Level,
         Message |-> ce.Entry.Message, Fields |-> fields,
         err |-> ioCoreWrite(cores[ce.cores[k]].Core)]]

-----------------------------------------------------------------------------
(* sync.RWMutex, as Logger.mu and multiCoreSyncWrapper.mu use it *)

\* the goroutines that call the package at the same time
Threads == {1, 2}

\* mu[l] is loggers[l].mu and mu[coreWrapperMu] is coreWrapper.mu
coreWrapperMu == MaxSize + 1
Mutexes       == 1..(MaxSize + 1)

\* A sync.RWMutex: the number of read locks held, and the goroutine that
\* has called Lock (0: none).  From the moment Lock is called no new RLock
\* is granted, also while Lock still waits for the readers to leave.
RWMutex == [readerCount |-> 0, writer |-> 0]

\* RLock returns only when no goroutine holds or waits for the write lock
CanRLock(m) == mu[m].writer = 0

RLock(locks, m)   == [locks EXCEPT ![m].readerCount = @ + 1]
RUnlock(locks, m) == [locks EXCEPT ![m].readerCount = @ - 1]

\* Lock: first the writers' mutex is taken and the readers are told ...
CanAnnounce(m)       == mu[m].writer = 0
Announce(locks, m, t) == [locks EXCEPT ![m].writer = t]

\* ... then Lock returns once the read locks held have been released
CanLock(m, t) == mu[m].writer = t /\ mu[m].readerCount = 0

Unlock(locks, m) == [locks EXCEPT ![m].writer = 0]

\* What a goroutine holds of the call it is in: the call, the place in its
\* code, the receiver, the arguments and the local variables.
Frame(call, pc, l) ==
    [call |-> call, pc |-> pc, logger |-> l, level |-> InfoLevel,
     msg |-> <<>>, fields |-> NoFields, core |-> nopCore,
     redactedMsg |-> <<>>, ce |-> NilCE, i |-> 0, n |-> 0, out |-> <<>>,
     err |-> "nil"]

\* a goroutine that is in no call
Idle == Frame("idle", "", 0)

-----------------------------------------------------------------------------
(* The record of the last operation *)

Call(name, l) ==
    [name |-> name, logger |-> l, level |-> InfoLevel, msg |-> <<>>,
     fields |-> NoFields, arg |-> "", ret |-> "nil", out |-> <<>>]

Verbs == {"Debug", "Info", "Warn", "Error", "Fatal"}

\* what the bound of the model counts: the loggers, the cores of the
\* registry and the rules in the loggers' lists
RECURSIVE RuleCount(_)
RuleCount(i) ==
    IF i = 0 THEN 0 ELSE Len(loggers[i].redactions) + RuleCount(i - 1)

Size == Len(loggers) + Len(cores) + RuleCount(Len(loggers))

-----------------------------------------------------------------------------
(* logger.go: construction *)

\* The Config values the root logger is built from.  NewLogger(name, level)
\* leaves the state NewLoggerWithConfig leaves for a Config that holds
\* nothing but Name and Level.
Configs ==
    { [Name |-> "app", Level |-> InfoLevel, ConsoleLevel |-> <<>>,
       RedactFields |-> <<>>],
      [Name |-> "", Level |-> InfoLevel, ConsoleLevel |-> <<>>,
       RedactFields |-> <<>>],
      [Name |-> "app", Level |-> InfoLevel, ConsoleLevel |-> <<InfoLevel>>,
       RedactFields |-> <<"password">>] }

\* func NewLogger(name string, level LogLevel) *Logger
NewLogger(name, level) ==
    [name |-> name, context |-> <<zapString("logger", name)>>, redactions |-> <<>>]

\* func NewLoggerWithConfig(cfg Config) (*Logger, error)
NewLoggerWithConfig(cfg) ==
    /\ loggers = <<NewLogger(cfg.Name, cfg.Level)>>
    /\ atomicLevel = cfg.Level
    /\ cores =
          (IF cfg.ConsoleLevel # <<>>
           THEN <<createRedactingCore(Root, ioCore("stdout", cfg.ConsoleLevel[1]))>>
           ELSE <<>>)
          \o (IF Len(cfg.RedactFields) > 0
              THEN <<createFieldRedactorCore(Root, cfg.RedactFields)>>
              ELSE <<>>)
    /\ written = <<>>
    /\ op = Call("NewLoggerWithConfig", Root)
    /\ exited = FALSE
    /\ mu = [m \in Mutexes |-> RWMutex]
    /\ threads = [t \in Threads |-> Idle]

Init == \E cfg \in Configs : NewLoggerWithConfig(cfg)

-----------------------------------------------------------------------------
(* logger.go: the logging verbs *)

\* The body the five verbs share: redact the message, put the fields of the
\* call after the context, hand both to the zap logger.
log(name, lvl, l, msg, fields) ==
    /\ \E order \in Orders(DOMAIN fields),
          redactedMsg \in {redactMessage(l, msg)} :
         \E ce \in {zapCheck(lvl, redactedMsg)} :
             LET allFields == loggers[l].context \o
                     [k \in 1..Len(order) |-> zapAny(order[k], fields[order[k]])]
             IN
             /\ written' = IF ce.nil THEN <<>> ELSE ceWrite(ce, allFields)
             /\ exited' = (~ce.nil /\ ce.after = "WriteThenFatal")
             /\ op' = [Call(name, l) EXCEPT !.level = lvl, !.msg = msg,
                                            !.fields = fields]
    /\ UNCHANGED <<loggers, atomicLevel, cores, mu, threads>>

Debug(l, msg, fields) ==
    /\ ~exited
    /\ l \in DOMAIN loggers
    /\ log("Debug", DebugLevel, l, msg, fields)

Info(l, msg, fields) ==
    /\ ~exited
    /\ l \in DOMAIN loggers
    /\ log("Info", InfoLevel, l, msg, fields)

Warn(l, msg, fields) ==
    /\ ~exited
    /\ l \in DOMAIN loggers
    /\ log("Warn", WarnLevel, l, msg, fields)

Error(l, msg, fields) ==
    /\ ~exited
    /\ l \in DOMAIN loggers
    /\ log("Error", ErrorLevel, l, msg, fields)

Fatal(l, msg, fields) ==
    /\ ~exited
    /\ l \in DOMAIN loggers
    /\ log("Fatal", FatalLevel, l, msg, fields)


\* func (l *Logger) SetLevel(level LogLevel)
SetLevel(l, level) ==
    /\ ~exited
    /\ l \in DOMAIN loggers
    /\ atomicLevel' = level
    /\ written' = <<>>
    /\ op' = [Call("SetLevel", l) EXCEPT !.level = level]
    /\ UNCHANGED <<loggers, cores, exited, mu, threads>>

-----------------------------------------------------------------------------
(* logger.go: derived loggers *)

Min(S) == CHOOSE x \in S : \A y \in S : x <= y

\* Child that keeps the parent's context slice instead of copying it: the
\* write of the child's name lands in the array the parent reads
ChildAliasing(l, name) ==
    /\ ~exited
    /\ l \in DOMAIN loggers
    /\ Size < MaxSize
    /\ LET childName == IF loggers[l].name # ""
                        THEN loggers[l].name \o "." \o name
                        ELSE name
           context   == loggers[l].context
           hits      == {i \in 1..Len(context) : context[i].Key = "logger"}
           shared    == IF hits = {} THEN context
                        ELSE [context EXCEPT ![Min(hits)] =
                                  zapString("logger", childName)]
           child     == [name |-> childName, context |-> shared,
                         redactions |-> loggers[l].redactions]
       IN  loggers' = Append([loggers EXCEPT ![l].context = shared], child)
    /\ written' = <<>>
    /\ op' = [Call("Child", l) EXCEPT !.arg = name]
    /\ UNCHANGED <<atomicLevel, cores, exited, mu, threads>>

\* func (l *Logger) Child(name string) *Logger
Child(l, name) ==
    /\ ~exited
    /\ l \in DOMAIN loggers
    /\ Size < MaxSize
    /\ LET childName == IF loggers[l].name # ""
                        THEN loggers[l].name \o "." \o name
                        ELSE name
           context   == loggers[l].context
           hits      == {i \in 1..Len(context) : context[i].Key = "logger"}
           child     == [name |-> childName,
                         context |-> IF hits = {} THEN context
                                     ELSE [context EXCEPT ![Min(hits)] =
                                               zapString("logger", childName)],
                         redactions |-> loggers[l].redactions]
       IN  loggers' = Append(loggers, child)
    /\ written' = <<>>
    /\ op' = [Call("Child", l) EXCEPT !.arg = name]
    /\ UNCHANGED <<atomicLevel, cores, exited, mu, threads>>

\* func (l *Logger) WithContext(fields map[string]interface{}) *Logger
WithContext(l, fields) ==
    /\ ~exited
    /\ l \in DOMAIN loggers
    /\ Size < MaxSize
    /\ \E order \in Orders(DOMAIN fields) :
         LET contextLogger ==
                 [name |-> loggers[l].name,
                  context |-> loggers[l].context \o
                      [k \in 1..Len(order) |-> zapAny(order[k], fields[order[k]])],
                  redactions |-> loggers[l].redactions]
         IN  loggers' = Append(loggers, contextLogger)
    /\ written' = <<>>
    /\ op' = [Call("WithContext", l) EXCEPT !.fields = fields]
    /\ UNCHANGED <<atomicLevel, cores, exited, mu, threads>>

-----------------------------------------------------------------------------
(* redaction.go, handlers.go: registration *)

\* func (l *Logger) AddRedaction(pattern *regexp.Regexp, replacement string)
AddRedaction(l, pattern, replacement) ==
    /\ ~exited
    /\ l \in DOMAIN loggers
    /\ Size < MaxSize
    /\ loggers' = [loggers EXCEPT ![l].redactions =
                       Append(@, redaction(pattern, replacement))]
    /\ written' = <<>>
    /\ op' = Call("AddRedaction", l)
    /\ UNCHANGED <<atomicLevel, cores, exited, mu, threads>>

\* func (l *Logger) AddConsoleHandler(level LogLevel, development bool)
\* development chooses the encoder, which decides how a record is rendered
\* and not which records the sink is given.
AddConsoleHandler(l, level, development) ==
    /\ ~exited
    /\ l \in DOMAIN loggers
    /\ Size < MaxSize
    /\ cores' = AddCore(createRedactingCore(l, ioCore("stdout", level)))
    /\ written' = <<>>
    /\ op' = [Call("AddConsoleHandler", l) EXCEPT !.level = level]
    /\ UNCHANGED <<loggers, atomicLevel, exited, mu, threads>>

\* AddFileHandler that goes on to register a core after os.OpenFile failed
AddFileHandlerRegisters(l, filePath, level, opened) ==
    /\ ~exited
    /\ l \in DOMAIN loggers
    /\ Size < MaxSize
    /\ cores' = AddCore(createRedactingCore(l, ioCore(filePath, level)))
    /\ op' = [Call("AddFileHandler", l) EXCEPT
                  !.level = level, !.ret = IF opened THEN "nil" ELSE "err"]
    /\ written' = <<>>
    /\ UNCHANGED <<loggers, atomicLevel, exited, mu, threads>>

\* func (l *Logger) AddFileHandler(filePath string, level LogLevel) error
\* opened is the outcome of os.OpenFile.
AddFileHandler(l, filePath, level, opened) ==
    /\ ~exited
    /\ l \in DOMAIN loggers
    /\ Size < MaxSize
    /\ IF opened
       THEN /\ cores' = AddCore(createRedactingCore(l, ioCore(filePath, level)))
            /\ op' = [Call("AddFileHandler", l) EXCEPT !.level = level]
       ELSE /\ cores' = cores
            /\ op' = [Call("AddFileHandler", l) EXCEPT !.level = level, !.ret = "err"]
    /\ written' = <<>>
    /\ UNCHANGED <<loggers, atomicLevel, exited, mu, threads>>

-----------------------------------------------------------------------------

\* the loggers there can be
LoggerIds == 1..MaxSize

\* Any operation on any logger of the lineage
Next ==
    \/ \E l \in LoggerIds, c \in Calls : Debug(l, c.msg, c.fields)
    \/ \E l \in LoggerIds, c \in Calls : Info(l, c.msg, c.fields)
    \/ \E l \in LoggerIds, c \in Calls : Warn(l, c.msg, c.fields)
    \/ \E l \in LoggerIds, c \in Calls : Error(l, c.msg, c.fields)
    \/ \E l \in LoggerIds, c \in Calls : Fatal(l, c.msg, c.fields)
    \/ \E l \in LoggerIds, level \in SetLevels : SetLevel(l, level)
    \/ \E l \in LoggerIds, name \in ChildNames : Child(l, name)
    \/ \E l \in LoggerIds, fields \in ContextFields : WithContext(l, fields)
    \/ \E l \in LoggerIds, r \in Rules : AddRedaction(l, r.regex, r.replacement)
    \/ \E l \in LoggerIds, level \in ConsoleLevels, development \in BOOLEAN :
           AddConsoleHandler(l, level, development)
    \/ \E l \in LoggerIds, filePath \in FilePaths, level \in FileLevels,
          opened \in BOOLEAN :
           AddFileHandler(l, filePath, level, opened)

Spec == Init /\ [][Next]_vars

\* The lineage with the rule and the message of the demonstration program:
\* the credit-card pattern and a message that holds a card number.
NextCard ==
    \/ \E l \in LoggerIds, c \in CardCalls : Debug(l, c.msg, c.fields)
    \/ \E l \in LoggerIds, c \in CardCalls : Info(l, c.msg, c.fields)
    \/ \E l \in LoggerIds, c \in CardCalls : Warn(l, c.msg, c.fields)
    \/ \E l \in LoggerIds, c \in CardCalls : Error(l, c.msg, c.fields)
    \/ \E l \in LoggerIds, c \in CardCalls : Fatal(l, c.msg, c.fields)
    \/ \E l \in LoggerIds, level \in SetLevels : SetLevel(l, level)
    \/ \E l \in LoggerIds, name \in ChildNames : Child(l, name)
    \/ \E l \in LoggerIds, fields \in UserContext : WithContext(l, fields)
    \/ \E l \in LoggerIds, r \in CardRules : AddRedaction(l, r.regex, r.replacement)
    \/ \E l \in LoggerIds, level \in ConsoleLevels, development \in BOOLEAN :
           AddConsoleHandler(l, level, development)
    \/ \E l \in LoggerIds, filePath \in FilePaths, level \in FileLevels,
          opened \in BOOLEAN :
           AddFileHandler(l, filePath, level, opened)

\* logger := NewLogger("app", zapcore.InfoLevel)
InitCard ==
    NewLoggerWithConfig([Name |-> "app", Level |-> InfoLevel,
                         ConsoleLevel |-> <<>>, RedactFields |-> <<>>])

SpecCard == InitCard /\ [][NextCard]_vars

\* A lineage with a sink whose writes fail, and Fatal
NextFatal ==
    \/ \E l \in LoggerIds, c \in Calls : Info(l, c.msg, c.fields)
    \/ \E l \in LoggerIds, c \in Calls : Fatal(l, c.msg, c.fields)
    \/ \E l \in LoggerIds, name \in ChildNames : Child(l, name)
    \/ \E l \in LoggerIds, level \in ConsoleLevels, development \in BOOLEAN :
           AddConsoleHandler(l, level, development)
    \/ \E l \in LoggerIds, filePath \in {FullPath}, level \in FileLevels,
          opened \in BOOLEAN :
           AddFileHandler(l, filePath, level, opened)

SpecFatal == InitCard /\ [][NextFatal]_vars

\* A call of l.redactMessage(message) by itself, as the verbs and
\* redactingCore.Check make it; out is the string it returns.
redactMessageCall(l, message) ==
    /\ ~exited
    /\ l \in DOMAIN loggers
    /\ op' = [Call("redactMessage", l) EXCEPT !.msg = message,
                                              !.out = redactMessage(l, message)]
    /\ written' = <<>>
    /\ UNCHANGED <<loggers, atomicLevel, cores, exited, mu, threads>>

AllRules    == Rules \cup CardRules
AllMessages == {MsgAB, MsgLogin, MsgCard}

\* The rule list of a logger as it grows, and redactMessage on it
NextRedact ==
    \/ \E l \in LoggerIds, r \in AllRules : AddRedaction(l, r.regex, r.replacement)
    \/ \E l \in LoggerIds, message \in AllMessages : redactMessageCall(l, message)

SpecRedact == InitCard /\ [][NextRedact]_vars

-----------------------------------------------------------------------------
(* The calls as goroutines run them: each step runs the code up to the next *)
(* place where the goroutine can block, that is the next RLock or Lock.     *)

\* the calls that add a logger, a core or a rule
Creators == {"AddRedaction", "AddConsoleHandler", "AddFileHandler", "AddCore"}

\* the calls under way that will add something when they return
Growing == Cardinality({t \in Threads : threads[t].call \in Creators})

At(t, call, pc) == threads[t].call = call /\ threads[t].pc = pc

\* func (l *Logger) Info(msg, fields...): l.mu.RLock()
InfoRLock(t, l, msg, fields) ==
    /\ ~exited
    /\ threads[t] = Idle
    /\ l \in DOMAIN loggers
    /\ CanRLock(l)
    /\ mu' = RLock(mu, l)
    /\ threads' = [threads EXCEPT ![t] =
                       [Frame("Info", "redactMessage", l) EXCEPT
                            !.level = InfoLevel, !.msg = msg, !.fields = fields]]
    /\ UNCHANGED <<loggers, atomicLevel, cores, written, op, exited>>

\* redactedMsg := l.redactMessage(msg): l.mu.RLock() once more, the loop
\* over l.redactions, l.mu.RUnlock()
InfoRedactMessage(t) ==
    /\ ~exited
    /\ At(t, "Info", "redactMessage")
    /\ CanRLock(threads[t].logger)
    /\ threads' = [threads EXCEPT
                       ![t].redactedMsg = redactMessage(threads[t].logger, threads[t].msg),
                       ![t].pc = "Enabled"]
    /\ UNCHANGED <<loggers, atomicLevel, cores, written, op, exited, mu>>

\* l.Logger.Info -> (*zap.Logger).check: the registry's Enabled, which
\* takes and releases m.mu.RLock(); a level no core enables is dropped here
InfoEnabled(t) ==
    /\ ~exited
    /\ At(t, "Info", "Enabled")
    /\ CanRLock(coreWrapperMu)
    /\ threads' = [threads EXCEPT
                       ![t].pc = IF multiCoreSyncWrapperEnabled(threads[t].level)
                                 THEN "Check" ELSE "Write"]
    /\ UNCHANGED <<loggers, atomicLevel, cores, written, op, exited, mu>>

\* func (m *multiCoreSyncWrapper) Check: m.mu.RLock(); range m.cores
InfoCheckRLock(t) ==
    /\ ~exited
    /\ At(t, "Info", "Check")
    /\ CanRLock(coreWrapperMu)
    /\ mu' = RLock(mu, coreWrapperMu)
    /\ threads' = [threads EXCEPT ![t].pc = "CheckLoop", ![t].i = 1,
                                  ![t].n = Len(cores)]
    /\ UNCHANGED <<loggers, atomicLevel, cores, written, op, exited>>

\* ce = core.Check(ent, ce) for one core of the registry; a redactingCore
\* calls rc.logger.redactMessage, which takes rc.logger.mu.RLock()
InfoCheckCore(t) ==
    /\ ~exited
    /\ At(t, "Info", "CheckLoop")
    /\ threads[t].i <= threads[t].n
    /\ LET i   == threads[t].i
           ent == [Level |-> threads[t].level, Message |-> threads[t].redactedMsg]
       IN  /\ cores[i].type = "redactingCore" => CanRLock(cores[i].logger)
           /\ threads' = [threads EXCEPT ![t].ce = coreCheck(i, ent, threads[t].ce),
                                         ![t].i = i + 1]
    /\ UNCHANGED <<loggers, atomicLevel, cores, written, op, exited, mu>>

\* the end of Check: return ce, and the deferred m.mu.RUnlock()
InfoCheckReturn(t) ==
    /\ ~exited
    /\ At(t, "Info", "CheckLoop")
    /\ threads[t].i > threads[t].n
    /\ mu' = RUnlock(mu, coreWrapperMu)
    /\ threads' = [threads EXCEPT ![t].pc = "Write"]
    /\ UNCHANGED <<loggers, atomicLevel, cores, written, op, exited>>

\* ce.Write(allFields...) on the cores Check added, then Info returns and
\* the deferred l.mu.RUnlock() runs
InfoReturn(t) ==
    /\ ~exited
    /\ At(t, "Info", "Write")
    /\ \E order \in Orders(DOMAIN threads[t].fields) :
         LET l         == threads[t].logger
             fields    == threads[t].fields
             allFields == loggers[l].context \o
                     [k \in 1..Len(order) |-> zapAny(order[k], fields[order[k]])]
         IN  /\ written' = IF threads[t].ce.nil THEN <<>>
                           ELSE ceWrite(threads[t].ce, allFields)
             /\ op' = [Call("Info", l) EXCEPT !.level = threads[t].level,
                                              !.msg = threads[t].msg,
                                              !.fields = fields]
             /\ mu' = RUnlock(mu, l)
    /\ threads' = [threads EXCEPT ![t] = Idle]
    /\ UNCHANGED <<loggers, atomicLevel, cores, exited>>

\* func (l *Logger) AddRedaction(pattern, replacement): l.mu.Lock() is
\* called; from now on l.mu grants no new read lock
AddRedactionLock(t, l, pattern, replacement) ==
    /\ ~exited
    /\ threads[t] = Idle
    /\ l \in DOMAIN loggers
    /\ Size + Growing < MaxSize
    /\ CanAnnounce(l)
    /\ mu' = Announce(mu, l, t)
    /\ threads' = [threads EXCEPT ![t] =
                       [Frame("AddRedaction", "Lock", l) EXCEPT
                            !.out = <<redaction(pattern, replacement)>>]]
    /\ UNCHANGED <<loggers, atomicLevel, cores, written, op, exited>>

\* l.mu.Lock() returns, the rule is appended, the deferred l.mu.Unlock()
AddRedactionReturn(t) ==
    /\ ~exited
    /\ At(t, "AddRedaction", "Lock")
    /\ CanLock(threads[t].logger, t)
    /\ loggers' = [loggers EXCEPT ![threads[t].logger].redactions =
                       Append(@, threads[t].out[1])]
    /\ mu' = Unlock(mu, threads[t].logger)
    /\ written' = <<>>
    /\ op' = Call("AddRedaction", threads[t].logger)
    /\ threads' = [threads EXCEPT ![t] = Idle]
    /\ UNCHANGED <<atomicLevel, cores, exited>>

\* func (l *Logger) AddConsoleHandler(level, development): l.mu.Lock() is
\* called
AddConsoleHandlerLock(t, l, level, development) ==
    /\ ~exited
    /\ threads[t] = Idle
    /\ l \in DOMAIN loggers
    /\ Size + Growing < MaxSize
    /\ CanAnnounce(l)
    /\ mu' = Announce(mu, l, t)
    /\ threads' = [threads EXCEPT ![t] =
                       [Frame("AddConsoleHandler", "Lock", l) EXCEPT
                            !.level = level,
                            !.core = createRedactingCore(l, ioCore("stdout", level))]]
    /\ UNCHANGED <<loggers, atomicLevel, cores, written, op, exited>>

\* func (l *Logger) AddFileHandler(filePath, level): l.mu.Lock() is called
AddFileHandlerLock(t, l, filePath, level, opened) ==
    /\ ~exited
    /\ threads[t] = Idle
    /\ l \in DOMAIN loggers
    /\ Size + Growing < MaxSize
    /\ CanAnnounce(l)
    /\ mu' = Announce(mu, l, t)
    /\ threads' = [threads EXCEPT ![t] =
                       [Frame("AddFileHandler", "Lock", l) EXCEPT
                            !.level = level,
                            !.err = IF opened THEN "nil" ELSE "err",
                            !.core = createRedactingCore(l, ioCore(filePath, level))]]
    /\ UNCHANGED <<loggers, atomicLevel, cores, written, op, exited>>

\* l.mu.Lock() of a handler registration returns; the core is built and
\* l.coreWrapper.AddCore is reached, or os.OpenFile has failed and
\* AddFileHandler returns the error
HandlerLocked(t) ==
    /\ ~exited
    /\ threads[t].call \in {"AddConsoleHandler", "AddFileHandler"}
    /\ threads[t].pc = "Lock"
    /\ CanLock(threads[t].logger, t)
    /\ IF threads[t].err = "nil"
       THEN /\ threads' = [threads EXCEPT ![t].pc = "AddCore"]
            /\ UNCHANGED <<mu, written, op>>
       ELSE /\ threads' = [threads EXCEPT ![t] = Idle]
            /\ mu' = Unlock(mu, threads[t].logger)
            /\ written' = <<>>
            /\ op' = [Call(threads[t].call, threads[t].logger) EXCEPT
                          !.level = threads[t].level, !.ret = "err"]
    /\ UNCHANGED <<loggers, atomicLevel, cores, exited>>

\* func (m *multiCoreSyncWrapper) AddCore(core): m.mu.Lock() is called
AddCoreLock(t) ==
    /\ ~exited
    /\ threads[t].call \in {"AddConsoleHandler", "AddFileHandler", "AddCore"}
    /\ threads[t].pc = "AddCore"
    /\ CanAnnounce(coreWrapperMu)
    /\ mu' = Announce(mu, coreWrapperMu, t)
    /\ threads' = [threads EXCEPT ![t].pc = "AddCoreLocked"]
    /\ UNCHANGED <<loggers, atomicLevel, cores, written, op, exited>>

\* AddCore that does not wait for the read locks on m.mu to be released
AddCoreReturnNoWait(t) ==
    /\ ~exited
    /\ threads[t].pc = "AddCoreLocked"
    /\ mu[coreWrapperMu].writer = t
    /\ cores' = AddCore(threads[t].core)
    /\ mu' = IF threads[t].call = "AddCore"
             THEN Unlock(mu, coreWrapperMu)
             ELSE Unlock(Unlock(mu, coreWrapperMu), threads[t].logger)
    /\ written' = <<>>
    /\ op' = [Call(threads[t].call, threads[t].logger) EXCEPT
                  !.level = threads[t].level]
    /\ threads' = [threads EXCEPT ![t] = Idle]
    /\ UNCHANGED <<loggers, atomicLevel, exited>>

\* m.mu.Lock() returns, the core is appended, m.mu.Unlock(); a handler
\* registration returns too and its deferred l.mu.Unlock() runs
AddCoreReturn(t) ==
    /\ ~exited
    /\ threads[t].pc = "AddCoreLocked"
    /\ CanLock(coreWrapperMu, t)
    /\ cores' = AddCore(threads[t].core)
    /\ mu' = IF threads[t].call = "AddCore"
             THEN Unlock(mu, coreWrapperMu)
             ELSE Unlock(Unlock(mu, coreWrapperMu), threads[t].logger)
    /\ written' = <<>>
    /\ op' = [Call(threads[t].call, threads[t].logger) EXCEPT
                  !.level = threads[t].level]
    /\ threads' = [threads EXCEPT ![t] = Idle]
    /\ UNCHANGED <<loggers, atomicLevel, exited>>

\* Child as a goroutine runs it: l.mu.RLock(), the body, l.mu.RUnlock()
ChildCall(t, l, name) ==
    /\ threads[t] = Idle
    /\ l \in DOMAIN loggers
    /\ CanRLock(l)
    /\ Size + Growing < MaxSize
    /\ Child(l, name)

\* Two goroutines that call Info, AddRedaction, the handler registrations
\* and Child on the loggers of one lineage
NextConc ==
    \/ \E t \in Threads, l \in LoggerIds : InfoRLock(t, l, MsgAB, NoFields)
    \/ \E t \in Threads : InfoRedactMessage(t)
    \/ \E t \in Threads : InfoEnabled(t)
    \/ \E t \in Threads : InfoCheckRLock(t)
    \/ \E t \in Threads : InfoCheckCore(t)
    \/ \E t \in Threads : InfoCheckReturn(t)
    \/ \E t \in Threads : InfoReturn(t)
    \/ \E t \in Threads, l \in LoggerIds :
           AddRedactionLock(t, l, RuleAB.regex, RuleAB.replacement)
    \/ \E t \in Threads : AddRedactionReturn(t)
    \/ \E t \in Threads, l \in LoggerIds, level \in ConsoleLevels :
           AddConsoleHandlerLock(t, l, level, FALSE)
    \/ \E t \in Threads, l \in LoggerIds, filePath \in FilePaths,
          level \in FileLevels, opened \in BOOLEAN :
           AddFileHandlerLock(t, l, filePath, level, opened)
    \/ \E t \in Threads : HandlerLocked(t)
    \/ \E t \in Threads : AddCoreLock(t)
    \/ \E t \in Threads : AddCoreReturn(t)
    \/ \E t \in Threads, l \in LoggerIds, name \in ChildNames : ChildCall(t, l, name)

SpecConc == InitCard /\ [][NextConc]_vars

\* the steps that carry on the call goroutine t is in
Run(t) ==
    \/ InfoRedactMessage(t)
    \/ InfoEnabled(t)
    \/ InfoCheckRLock(t)
    \/ InfoCheckCore(t)
    \/ InfoCheckReturn(t)
    \/ InfoReturn(t)
    \/ AddRedactionReturn(t)
    \/ HandlerLocked(t)
    \/ AddCoreLock(t)
    \/ AddCoreReturn(t)

\* The Go scheduler runs every goroutine that can run, and a goroutine
\* that waits for a lock is woken when the lock is free for it.
SpecConcFair == SpecConc /\ \A t \in Threads : WF_vars(Run(t))

-----------------------------------------------------------------------------
(* core.go: the registry called by itself, as zap or any holder of the     *)
(* zapcore.Core may call it                                                *)

\* core.Write(ent, fields) of entry i of the registry, as the Write call it
\* ends in: a redactingCore embeds the ioCore and has no Write of its own,
\* so the ioCore writes (it does not ask its level again); a
\* fieldRedactingCore hands the redacted fields to the nop core, which
\* returns nil.
coreWrite(i, ent, fields) ==
    [core |-> i, Level |-> ent.Level, Message |-> ent.Message,
     Fields |-> IF cores[i].type = "fieldRedactingCore"
                THEN fieldRedactingCoreWrite(cores[i].redactKeys, fields)
                ELSE fields,
     err |-> IF cores[i].type = "redactingCore"
             THEN ioCoreWrite(cores[i].Core) ELSE "nil"]

\* func (m *multiCoreSyncWrapper) Enabled(lvl): m.mu.RLock(), the loop,
\* m.mu.RUnlock()
EnabledCall(t, lvl) ==
    /\ ~exited
    /\ threads[t] = Idle
    /\ CanRLock(coreWrapperMu)
    /\ op' = [Call("Enabled", Root) EXCEPT
                  !.level = lvl,
                  !.ret = IF multiCoreSyncWrapperEnabled(lvl) THEN "true" ELSE "false"]
    /\ written' = <<>>
    /\ UNCHANGED <<loggers, atomicLevel, cores, exited, mu, threads>>

\* func (m *multiCoreSyncWrapper) AddCore(core): m.mu.Lock() is called
AddCoreCall(t, core) ==
    /\ ~exited
    /\ threads[t] = Idle
    /\ Size + Growing < MaxSize
    /\ CanAnnounce(coreWrapperMu)
    /\ mu' = Announce(mu, coreWrapperMu, t)
    /\ threads' = [threads EXCEPT ![t] =
                       [Frame("AddCore", "AddCoreLocked", Root) EXCEPT !.core = core]]
    /\ UNCHANGED <<loggers, atomicLevel, cores, written, op, exited>>

\* func (m *multiCoreSyncWrapper) Write(ent, fields): m.mu.RLock();
\* range m.cores evaluates m.cores once
WriteRLock(t, ent, fields) ==
    /\ ~exited
    /\ threads[t] = Idle
    /\ CanRLock(coreWrapperMu)
    /\ mu' = RLock(mu, coreWrapperMu)
    /\ threads' = [threads EXCEPT ![t] =
                       [Frame("Write", "WriteLoop", Root) EXCEPT
                            !.level = ent.Level, !.msg = ent.Message,
                            !.fields = fields, !.i = 1, !.n = Len(cores)]]
    /\ UNCHANGED <<loggers, atomicLevel, cores, written, op, exited>>

\* Write that goes on to the next core after an error
WriteCoreContinue(t) ==
    /\ ~exited
    /\ At(t, "Write", "WriteLoop")
    /\ threads[t].i <= threads[t].n
    /\ LET ent == [Level |-> threads[t].level, Message |-> threads[t].msg]
           w   == coreWrite(threads[t].i, ent, threads[t].fields)
       IN  threads' = [threads EXCEPT ![t].out = Append(@, w), ![t].i = @ + 1]
    /\ UNCHANGED <<loggers, atomicLevel, cores, exited, mu, written, op>>

\* if err := core.Write(ent, fields); err != nil { return err }, with the
\* deferred m.mu.RUnlock() when it returns
WriteCore(t) ==
    /\ ~exited
    /\ At(t, "Write", "WriteLoop")
    /\ threads[t].i <= threads[t].n
    /\ LET ent == [Level |-> threads[t].level, Message |-> threads[t].msg]
           w   == coreWrite(threads[t].i, ent, threads[t].fields)
           out == Append(threads[t].out, w)
       IN  IF w.err = "nil"
           THEN /\ threads' = [threads EXCEPT ![t].out = out, ![t].i = @ + 1]
                /\ UNCHANGED <<mu, written, op>>
           ELSE /\ threads' = [threads EXCEPT ![t] = Idle]
                /\ mu' = RUnlock(mu, coreWrapperMu)
                /\ written' = out
                /\ op' = [Call("Write", Root) EXCEPT
                              !.level = threads[t].level, !.msg = threads[t].msg,
                              !.fields = threads[t].fields, !.ret = w.err,
                              !.out = <<threads[t].n>>]
    /\ UNCHANGED <<loggers, atomicLevel, cores, exited>>

\* return nil after the last core, and the deferred m.mu.RUnlock()
WriteReturn(t) ==
    /\ ~exited
    /\ At(t, "Write", "WriteLoop")
    /\ threads[t].i > threads[t].n
    /\ threads' = [threads EXCEPT ![t] = Idle]
    /\ mu' = RUnlock(mu, coreWrapperMu)
    /\ written' = threads[t].out
    /\ op' = [Call("Write", Root) EXCEPT
                  !.level = threads[t].level, !.msg = threads[t].msg,
                  !.fields = threads[t].fields, !.ret = "nil",
                  !.out = <<threads[t].n>>]
    /\ UNCHANGED <<loggers, atomicLevel, cores, exited>>

\* the cores, entries, levels and field lists the registry is called with
RegistryCores ==
    { createRedactingCore(Root, ioCore("stdout", InfoLevel)),
      createRedactingCore(Root, ioCore(FullPath, ErrorLevel)),
      createFieldRedactorCore(Root, <<"password">>),
      createFieldRedactorCore(Root, <<"user", "password">>) }

Entries == {[Level |-> InfoLevel, Message |-> MsgAB]}

EnabledLevels == {DebugLevel, InfoLevel, ErrorLevel}

FieldLists ==
    { <<>>,
      <<zapString("password", "secret123"), zapString("user", "alice")>>,
      <<zapAny("user", GoInt(7)), zapAny("password", GoInt(1234))>> }

\* Two goroutines that call AddCore, Enabled and Write on the registry
NextRegistry ==
    \/ \E t \in Threads, core \in RegistryCores : AddCoreCall(t, core)
    \/ \E t \in Threads : AddCoreReturn(t)
    \/ \E t \in Threads, lvl \in EnabledLevels : EnabledCall(t, lvl)
    \/ \E t \in Threads, ent \in Entries, fields \in FieldLists :
           WriteRLock(t, ent, fields)
    \/ \E t \in Threads : WriteCore(t)
    \/ \E t \in Threads : WriteReturn(t)

SpecRegistry == InitCard /\ [][NextRegistry]_vars

-----------------------------------------------------------------------------
(* Properties *)

IsVerb == op.name \in Verbs

Last(seq) == seq[Len(seq)]

\* the cores of the registry that the last call wrote to, in order
Receivers == [k \in 1..Len(written) |-> written[k].core]

\* the number of Write calls the last call made on core i
Writes(i) == Cardinality({k \in 1..Len(written) : written[k].core = i})

\* the pattern matches somewhere in s
HasMatch(re, s) == \E i \in 1..Len(s) : Match(re, s, i) > i

UniqueKeys(fields) ==
    \A i, j \in 1..Len(fields) : fields[i].Key = fields[j].Key => i = j

\* the loggers whose name a Child call has extended
IsChild(l) == loggers[l].name # loggers[Root].name

\* C1: right after root.SetLevel(Warn), an Info call on a child logger that
\* exists already writes to no sink, and a Warn call on it writes to every
\* sink whose own level accepts Warn.
C1_SetLevelSilencesChildInfo ==
    [][ ( /\ op.name = "SetLevel" /\ op.logger = Root /\ op.level = WarnLevel
          /\ op'.logger \in DOMAIN loggers
          /\ IsChild(op'.logger) )
        => /\ op'.name = "Info" => written' = <<>>
           /\ op'.name = "Warn" =>
                 \A i \in 1..Len(cores) :
                     cores[i].Core.type = "ioCore" /\ WarnLevel >= cores[i].Core.level
                         => \E k \in 1..Len(written') : written'[k].core = i
      ]_vars

\* C2: a call of a verb whose level is below the shared threshold writes to
\* no sink, whatever the sinks' own levels are.
C2_BelowThresholdIsNoOp ==
    (IsVerb /\ op.level < atomicLevel) => (written = <<>> /\ ~exited)

\* C3: a call that passes the threshold makes exactly one Write on every
\* registered sink whose own level accepts the call's level and none on the
\* others, and what is written has the level and the fields of the call.
C3_ExactlyOncePerAcceptingSink ==
    (IsVerb /\ op.level >= atomicLevel) =>
        /\ \A i \in 1..Len(cores) :
               Writes(i) = IF cores[i].Core.type = "ioCore"
                              /\ op.level >= cores[i].Core.level
                           THEN 1 ELSE 0
        /\ \A k \in 1..Len(written) :
               /\ written[k].core \in 1..Len(cores)
               /\ written[k].Level = op.level
               /\ Len(written[k].Fields) =
                      Len(loggers[op.logger].context) + Cardinality(DOMAIN op.fields)
               /\ {written[k].Fields[j] : j \in 1..Len(written[k].Fields)} =
                      {loggers[op.logger].context[j] :
                           j \in 1..Len(loggers[op.logger].context)}
                      \cup {zapAny(key, op.fields[key]) : key \in DOMAIN op.fields}

\* a call on a derived logger that both of two registered sinks receive
C3_Witness ==
    /\ op.name = "Error" /\ op.level >= atomicLevel
    /\ op.logger # Root
    /\ Len(cores) = 2
    /\ Receivers = <<1, 2>>

MsgCardRedacted ==
    <<"p", "a", "y", "m", "e", "n", "t", " ", "f", "a", "i", "l", "e", "d",
      " ", "w", "i", "t", "h", " ", "c", "a", "r", "d", " ", "X", "X", "X",
      "X", "-", "X", "X", "X", "X", "-", "X", "X", "X", "X", "-", "X", "X",
      "X", "X">>

\* console sink at Info, file sink at Error, the credit-card rule installed
\* on the logger, Warn("payment failed with card 4111-1111-1111-1111")
CardScenario ==
    /\ op.name = "Warn" /\ op.msg = MsgCard
    /\ Len(cores) = 2
    /\ cores[1].Core = ioCore("stdout", InfoLevel)
    /\ cores[2].Core = ioCore("application.log", ErrorLevel)
    /\ \E k \in 1..Len(loggers[op.logger].redactions) :
           loggers[op.logger].redactions[k] = RuleCard

\* C4: no sink is written a record below its own level, a sink whose level
\* accepts the call is written to whatever the other sinks do, and in the
\* card scenario the console sink alone is written the masked message.
C4_SinksFilterIndependently ==
    IsVerb =>
        /\ \A k \in 1..Len(written) :
               written[k].Level >= cores[written[k].core].Core.level
        /\ \A i \in 1..Len(cores) :
               (cores[i].Core.type = "ioCore" /\ op.level >= cores[i].Core.level)
                   => \E k \in 1..Len(written) : written[k].core = i
        /\ CardScenario =>
               /\ Receivers = <<1>>
               /\ written[1].Message = MsgCardRedacted

C4_Witness == CardScenario /\ Len(written) = 1

\* C5: the message a sink is written is the message of the call after one
\* pass of the rule list, when the sinks' wrappers and the caller have the
\* same rule list.
C5_RedactedOnce ==
    ( /\ IsVerb
      /\ \A i \in 1..Len(cores) :
             cores[i].type = "redactingCore" =>
                 loggers[cores[i].logger].redactions = loggers[op.logger].redactions )
    => \A k \in 1..Len(written) :
           written[k].Message = redactMessage(op.logger, op.msg)

\* rn(...r2(r1(M))...), the last rule outermost
RECURSIVE Composed(_, _)
Composed(rules, M) ==
    IF rules = <<>> THEN M
    ELSE LET rn == Last(rules)
         IN  ReplaceAllString(rn.regex,
                              Composed(SubSeq(rules, 1, Len(rules) - 1), M),
                              rn.replacement)

\* C6: redactMessage(M) is rn(...r2(r1(M))...) for the rules r1..rn of the
\* logger in the order they were added, and M itself when there is no rule.
C6_SequentialComposition ==
    op.name = "redactMessage" =>
        /\ op.out = Composed(loggers[op.logger].redactions, op.msg)
        /\ loggers[op.logger].redactions = <<>> => op.out = op.msg

\* "ab" under a -> b then b -> c is "cc": the second rule has worked on the
\* output of the first
C6_Witness ==
    /\ op.name = "redactMessage"
    /\ loggers[op.logger].redactions = <<RuleAB, RuleBC>>
    /\ op.msg = MsgAB
    /\ op.out = <<"c", "c">>

\* C7: a rule added through any logger of the lineage is applied to what
\* any logger of the lineage logs next: no sink is written a message that
\* matches the rule just added.
C7_RuleSharedByLineage ==
    [][ (op.name = "AddRedaction" /\ op'.name \in Verbs)
        => \A k \in 1..Len(written') :
               ~HasMatch(Last(loggers[op.logger].redactions).regex,
                         written'[k].Message)
      ]_vars

\* the keys given to createFieldRedactorCore
RedactKeys == UNION {cores[i].redactKeys : i \in 1..Len(cores)}

\* C8: no sink is written the string value of a field whose key is in the
\* redacted-key set: it is written "***REDACTED***".
C8_RedactedFieldKeys ==
    IsVerb =>
        \A k \in 1..Len(written) :
            \A j \in 1..Len(written[k].Fields) :
                LET f == written[k].Fields[j]
                IN  (f.Key \in RedactKeys /\ f.Type = StringType)
                        => f.String = "***REDACTED***"

\* C9: the keys of the fields written to a sink are unique, and so are the
\* keys of every logger's context.
C9_UniqueFieldKeys ==
    /\ IsVerb => \A k \in 1..Len(written) : UniqueKeys(written[k].Fields)
    /\ \A l \in DOMAIN loggers : UniqueKeys(loggers[l].context)

\* C10: the logger Child(name) returns is named parent.name + "." + name
\* (name for an unnamed parent) and its context has exactly one field with
\* the key "logger", whose value is that name.
C10_ChildNameField ==
    op.name = "Child" =>
        LET child  == Last(loggers)
            parent == loggers[op.logger]
            hits   == {i \in 1..Len(child.context) : child.context[i].Key = "logger"}
        IN  /\ child.name = IF parent.name = "" THEN op.arg
                             ELSE parent.name \o "." \o op.arg
            /\ Cardinality(hits) = 1
            /\ \A i \in hits : child.context[i].String = child.name

\* C11: Child and WithContext leave every logger that exists as it is, the
\* parent and the loggers derived earlier alike: its name and its context
\* fields are the same after the call, so what it hands to the sinks
\* afterwards is what it handed before.
C11_DerivationLeavesParent ==
    [][ op'.name \in {"Child", "WithContext"}
        => /\ Len(loggers') = Len(loggers) + 1
           /\ \A l \in DOMAIN loggers :
                  /\ loggers'[l].name = loggers[l].name
                  /\ loggers'[l].context = loggers[l].context
      ]_vars

\* a logger derived from a derived logger, whose parent still has the
\* context Child gave it
C11_Witness ==
    /\ op.name \in {"Child", "WithContext"}
    /\ op.logger # Root
    /\ Len(loggers) >= 3
    /\ loggers[op.logger].context # Last(loggers).context
    /\ loggers[Root].context = <<zapString("logger", "app")>>

\* C12: a goroutine in Info on a logger and a goroutine in AddRedaction on
\* the same logger never wait for each other for ever: when both calls are
\* under way, one of them returns (and then nothing holds up the other).
C12_VerbAndAddRedactionReturn ==
    \A t, u \in Threads :
        ( /\ threads[t].call = "Info"
          /\ threads[u].call = "AddRedaction"
          /\ threads[u].logger = threads[t].logger )
        ~> (threads[t] = Idle \/ threads[u] = Idle)

\* C13: a goroutine in AddConsoleHandler or AddFileHandler on a logger and
\* a goroutine in Info on another logger of the lineage, which shares the
\* registry, never wait for each other for ever: when both calls are under
\* way, one of them returns.
C13_HandlerAndVerbReturn ==
    \A t, u \in Threads :
        ( /\ threads[t].call = "Info"
          /\ threads[u].call \in {"AddConsoleHandler", "AddFileHandler"}
          /\ threads[u].logger # threads[t].logger )
        ~> (threads[t] = Idle \/ threads[u] = Idle)

\* C14: Fatal ends the process, and when it has ended every registered sink
\* (each accepts Fatal) has been handed the record once, the sinks whose
\* write failed and those after them included; with no sink it ends the
\* process all the same.
C14_FatalExitsAfterDelivery ==
    /\ op.name = "Fatal" =>
           /\ exited
           /\ \A i \in 1..Len(cores) :
                  Writes(i) = IF cores[i].type = "redactingCore" THEN 1 ELSE 0
           /\ \A k \in 1..Len(written) : written[k].Level = FatalLevel
    /\ exited => op.name = "Fatal"

\* Fatal with a sink whose write fails registered before a sink that works
C14_Witness ==
    /\ op.name = "Fatal" /\ exited
    /\ Len(written) = 2
    /\ written[1].err = "err"
    /\ written[2].err = "nil"

\* C15: the registry's Enabled(S) is false when no core is registered, and
\* is true exactly when a registered core enables S: a handler's core whose
\* level is at most S (the field redactor's nop core enables nothing).
C15_EnabledIffSomeSink ==
    op.name = "Enabled" =>
        /\ cores = <<>> => op.ret = "false"
        /\ op.ret = "true" <=>
               \E i \in 1..Len(cores) :
                   /\ cores[i].type = "redactingCore"
                   /\ op.level >= cores[i].Core.level
        /\ op.ret \in {"true", "false"}

\* Enabled(Info) is true with a core at Error before the core at Info
C15_Witness ==
    /\ op.name = "Enabled" /\ op.level = InfoLevel /\ op.ret = "true"
    /\ Len(cores) >= 2
    /\ cores[1].Core = ioCore(FullPath, ErrorLevel)

\* the cores whose Write returns an error
Failing == {i \in 1..Len(cores) : coreWrite(i, NoEntry, <<>>).err # "nil"}

\* C16: the registry's Write has written to the cores in registration
\* order up to and including the first whose Write failed, has returned
\* that error and has written to no core after it; when no Write failed it
\* has written to every core and returned nil.
C16_WriteStopsAtFirstError ==
    op.name = "Write" =>
        LET last == IF Failing = {} THEN Len(cores) ELSE Min(Failing)
        IN  /\ Receivers = [i \in 1..last |-> i]
            /\ op.ret = IF Failing = {} THEN "nil" ELSE "err"
            /\ \A k \in 1..Len(written) :
                   /\ written[k].Level = op.level
                   /\ written[k].Message = op.msg
                   /\ written[k].err = "nil" <=> k \notin Failing

\* a Write that failed on the second of three cores
C16_Witness ==
    /\ op.name = "Write" /\ op.ret = "err"
    /\ Len(cores) = 3
    /\ Receivers = <<1, 2>>

C18_FieldRedactingWrite ==
    op.name = "Write" =>
        \A k \in 1..Len(written) :
            LET F == op.fields
                G == written[k].Fields
                K == cores[written[k].core].redactKeys
            IN  /\ Len(G) = Len(F)
                /\ \A j \in 1..Len(F) :
                       IF F[j].Key \in K /\ F[j].Type = StringType
                       THEN G[j] = [F[j] EXCEPT !.String = "***REDACTED***"]
                       ELSE G[j] = F[j]
                /\ cores[written[k].core].type # "fieldRedactingCore" => G = F

\* a field redactor was given a string and an integer under its keys, and a
\* core after it the same list
C18_Witness ==
    /\ op.name = "Write"
    /\ Len(written) = 3
    /\ cores[1].type = "fieldRedactingCore" /\ cores[1].redactKeys = {"password"}
    /\ cores[2].type = "fieldRedactingCore" /\ cores[2].redactKeys = {"user", "password"}
    /\ op.fields = <<zapAny("user", GoInt(7)), zapAny("password", GoInt(1234))>>
    /\ written[3].Fields = op.fields

\* the same with string values: both are redacted by the second redactor
C18_WitnessStrings ==
    /\ op.name = "Write"
    /\ Len(written) = 2
    /\ cores[1].redactKeys = {"password"}
    /\ cores[2].redactKeys = {"user", "password"}
    /\ written[1].Fields = <<zapString("password", "***REDACTED***"),
                             zapString("user", "alice")>>
    /\ written[2].Fields = <<zapString("password", "***REDACTED***"),
                             zapString("user", "***REDACTED***")>>

\* C19: an AddFileHandler that returns the error of os.OpenFile leaves the
\* registry and the loggers as they were, and the verb called next is
\* written to every registered sink that accepts its level.
C19_FailedOpenRegistersNothing ==
    [][ /\ (op'.name = "AddFileHandler" /\ op'.ret = "err") =>
               /\ cores' = cores
               /\ loggers' = loggers
               /\ exited' = exited
        /\ (op.name = "AddFileHandler" /\ op.ret = "err" /\ op'.name \in Verbs) =>
               \A i \in 1..Len(cores) :
                   (cores[i].type = "redactingCore" /\ op'.level >= cores[i].Core.level)
                       => \E k \in 1..Len(written') : written'[k].core = i
      ]_vars

\* AddFileHandler has failed on a logger whose registry holds two sinks
C19_Witness ==
    /\ op.name = "AddFileHandler" /\ op.ret = "err"
    /\ Len(cores) = 2

====
